---- MODULE Spec2Model ----
(***************************************************************************)
(* Model of streamlit_app.py, the Clearcast disclaimer calculator.         *)
(*                                                                         *)
(* Text is a sequence of one-character strings, so that the regular        *)
(* expressions of extract_tokens act on characters as Python's re does.    *)
(* A regular expression is a tree of records; Match computes, for a start  *)
(* position, every end position Python's backtracking matcher would try,   *)
(* in the order it tries them: the head of the result is Python's match.   *)
(* Durations are in tenths of a second (0.2 s per word is 2 tenths).       *)
(***************************************************************************)
EXTENDS Integers, Sequences, FiniteSets, TLC

VARIABLES
  pc,                  \* position of the unit under test / of the script run
  text,                \* extract_tokens: argument text
  exclusions,          \* extract_tokens: argument exclusions
  text_tokens,         \* extract_tokens result / calculate_word_lists argument
  number_strings,      \* extract_tokens result / calculate_word_lists argument
  total_count,         \* calculate_word_lists result / calculate_duration argument
  final_display_list,  \* calculate_word_lists result
  duration,            \* calculate_duration result, tenths of a second
  rt,                  \* calculate_duration result, tenths of a second
  main_text,           \* widget: Disclaimer Text (Main)
  add_text,            \* widget: Additional Text
  brand_exclusions,    \* widget: Brand Names to Exclude
  has_additional,      \* widget: Include Additional/Split Text?
  main_text_tokens, main_num_strings, main_wc, main_display_list, main_dur, main_rt,
  add_text_tokens, add_num_strings, add_wc, add_display_list, add_dur, add_rt,
  total_dur

unitVars == <<text, exclusions, text_tokens, number_strings, total_count,
              final_display_list, duration, rt>>
appVars == <<main_text, add_text, brand_exclusions, has_additional,
             main_text_tokens, main_num_strings,
             main_wc, main_display_list, main_dur, main_rt,
             add_text_tokens, add_num_strings,
             add_wc, add_display_list, add_dur, add_rt, total_dur>>
vars == <<pc, unitVars, appVars>>

----------------------------------------------------------------------------
(* Characters *)

LowerCase == <<"a","b","c","d","e","f","g","h","i","j","k","l","m",
               "n","o","p","q","r","s","t","u","v","w","x","y","z">>
UpperCase == <<"A","B","C","D","E","F","G","H","I","J","K","L","M",
               "N","O","P","Q","R","S","T","U","V","W","X","Y","Z">>
DigitChars == <<"0","1","2","3","4","5","6","7","8","9">>

Range(f) == {f[i] : i \in DOMAIN f}
LowerSet == Range(LowerCase)
UpperSet == Range(UpperCase)
LetterSet == LowerSet \cup UpperSet
DigitSet == Range(DigitChars)
WordSet == LetterSet \cup DigitSet \cup {"_"}
SpaceSet == {" ", "\t", "\n"}

\* str.lower() on one character, and on a string
lowerChar(c) ==
  IF c \in UpperSet
    THEN LowerCase[CHOOSE i \in DOMAIN UpperCase : UpperCase[i] = c]
    ELSE c
lower(s) == [i \in DOMAIN s |-> lowerChar(s[i])]

\* str.strip()
RECURSIVE lstrip(_)
lstrip(s) == IF s # <<>> /\ Head(s) \in SpaceSet THEN lstrip(Tail(s)) ELSE s
RECURSIVE rstrip(_)
rstrip(s) ==
  IF s # <<>> /\ s[Len(s)] \in SpaceSet THEN rstrip(SubSeq(s, 1, Len(s) - 1)) ELSE s
strip(s) == rstrip(lstrip(s))

\* str.isdigit()
isdigit(s) == s # <<>> /\ \A i \in DOMAIN s : s[i] \in DigitSet

\* str.split(',')
RECURSIVE splitComma(_, _)
splitComma(s, cur) ==
  IF s = <<>> THEN <<cur>>
  ELSE IF Head(s) = "," THEN <<cur>> \o splitComma(Tail(s), <<>>)
  ELSE splitComma(Tail(s), Append(cur, Head(s)))
split(s) == splitComma(s, <<>>)

----------------------------------------------------------------------------
(* Regular expressions (Python re): constructors *)

Set(S)         == [t |-> "set", neg |-> FALSE, set |-> S]
NotSet(S)      == [t |-> "set", neg |-> TRUE, set |-> S]
Lit(c)         == Set({c})
Cat(rs)        == [t |-> "cat", rs |-> rs]
Rep(r, lo, hi) == [t |-> "rep", r |-> r, lo |-> lo, hi |-> hi] \* greedy {lo,hi}
Inf            == -1                                            \* no upper limit
Opt(r)         == Rep(r, 0, 1)
Star(r)        == Rep(r, 0, Inf)
Plus(r)        == Rep(r, 1, Inf)
Grp(n, r)      == [t |-> "grp", n |-> n, r |-> r]               \* capture group n
WB             == [t |-> "wb"]                                   \* \b
RECURSIVE Str(_)
Str(s) == IF s = <<>> THEN <<>> ELSE <<Lit(Head(s))>> \o Str(Tail(s))

NoGroups == <<<<0, 0>>, <<0, 0>>>>
At(i) == [pos |-> i, g |-> NoGroups]

isWord(s, i) == i \in DOMAIN s /\ s[i] \in WordSet
\* \b before position i (1-based) of s
boundary(s, i) == isWord(s, i - 1) # isWord(s, i)

charIn(c, r, ic) ==
  LET in == IF ic THEN \E x \in r.set : lowerChar(x) = lowerChar(c) ELSE c \in r.set
  IN  IF r.neg THEN ~in ELSE in

\* Match(r, s, st, ic): the states (end position, groups) of the matches of r
\* in s that start at st.pos, in backtracking order; ic is re.IGNORECASE.
RECURSIVE Match(_, _, _, _)
RECURSIVE MatchCat(_, _, _, _)
RECURSIVE MatchCatEach(_, _, _, _)
RECURSIVE MatchRep(_, _, _, _, _, _)
RECURSIVE MatchRepEach(_, _, _, _, _, _)

Match(r, s, st, ic) ==
  CASE r.t = "set" ->
         IF st.pos \in DOMAIN s /\ charIn(s[st.pos], r, ic)
           THEN <<[st EXCEPT !.pos = @ + 1]>> ELSE <<>>
    [] r.t = "wb"  -> IF boundary(s, st.pos) THEN <<st>> ELSE <<>>
    [] r.t = "cat" -> MatchCat(r.rs, s, st, ic)
    [] r.t = "rep" -> MatchRep(r.r, r.lo, r.hi, s, st, ic)
    [] r.t = "grp" ->
         LET inner == Match(r.r, s, st, ic)
         IN  [k \in DOMAIN inner |->
                [inner[k] EXCEPT !.g[r.n] = <<st.pos, inner[k].pos>>]]

MatchCat(rs, s, st, ic) ==
  IF rs = <<>> THEN <<st>>
  ELSE MatchCatEach(Tail(rs), s, Match(Head(rs), s, st, ic), ic)

MatchCatEach(rs, s, sts, ic) ==
  IF sts = <<>> THEN <<>>
  ELSE MatchCat(rs, s, Head(sts), ic) \o MatchCatEach(rs, s, Tail(sts), ic)

MatchRep(r, lo, hi, s, st, ic) ==
  LET once == IF hi = 0 THEN <<>> ELSE Match(r, s, st, ic)
      more == MatchRepEach(r, IF lo > 0 THEN lo - 1 ELSE 0,
                           IF hi > 0 THEN hi - 1 ELSE hi, s,
                           SelectSeq(once, LAMBDA x : x.pos > st.pos), ic)
  IN  more \o (IF lo = 0 THEN <<st>> ELSE <<>>)

MatchRepEach(r, lo, hi, s, sts, ic) ==
  IF sts = <<>> THEN <<>>
  ELSE MatchRep(r, lo, hi, s, Head(sts), ic) \o MatchRepEach(r, lo, hi, s, Tail(sts), ic)

\* The non-overlapping matches of r in s, scanning from position i: each is
\* [start, end, g] with s[start .. end-1] the match.  (No pattern of the
\* program matches the empty string.)
RECURSIVE Scan(_, _, _, _)
Scan(r, s, i, ic) ==
  IF i > Len(s) THEN <<>>
  ELSE LET m == Match(r, s, At(i), ic)
       IN  IF m # <<>> /\ m[1].pos > i
             THEN <<[start |-> i, end |-> m[1].pos, g |-> m[1].g]>>
                  \o Scan(r, s, m[1].pos, ic)
             ELSE Scan(r, s, i + 1, ic)

\* One item of a replacement template: literal text, or \n
Text(s)  == [lit |-> s]
Group(n) == [grp |-> n]
RECURSIVE Expand(_, _, _)
Expand(repl, s, m) ==
  IF repl = <<>> THEN <<>>
  ELSE LET it == Head(repl)
       IN  (IF "lit" \in DOMAIN it THEN it.lit
            ELSE SubSeq(s, m.g[it.grp][1], m.g[it.grp][2] - 1))
           \o Expand(Tail(repl), s, m)

\* re.sub(r, repl, s)
RECURSIVE SubFrom(_, _, _, _)
SubFrom(ms, repl, s, i) ==
  IF ms = <<>> THEN SubSeq(s, i, Len(s))
  ELSE SubSeq(s, i, Head(ms).start - 1) \o Expand(repl, s, Head(ms))
       \o SubFrom(Tail(ms), repl, s, Head(ms).end)
re_sub(r, repl, s, ic) == SubFrom(Scan(r, s, 1, ic), repl, s, 1)

\* re.findall(r, s) for a pattern without groups
re_findall(r, s) ==
  LET ms == Scan(r, s, 1, FALSE)
  IN  [k \in DOMAIN ms |-> SubSeq(s, ms[k].start, ms[k].end - 1)]

\* re.split(r'(\d+)', s): the spans between the matches and the matches, in turn
RECURSIVE SplitFrom(_, _, _)
SplitFrom(ms, s, i) ==
  IF ms = <<>> THEN <<SubSeq(s, i, Len(s))>>
  ELSE <<SubSeq(s, i, Head(ms).start - 1),
         SubSeq(s, Head(ms).start, Head(ms).end - 1)>>
       \o SplitFrom(Tail(ms), s, Head(ms).end)
re_split(r, s) == SplitFrom(Scan(r, s, 1, FALSE), s, 1)

----------------------------------------------------------------------------
(* Configuration *)

WORDS_TO_IGNORE_IN_NUMBERS ==
  { <<"h","u","n","d","r","e","d">>,
    <<"t","h","o","u","s","a","n","d">>,
    <<"a","n","d">> }

----------------------------------------------------------------------------
(* num2words (English): cardinal and year readings *)

LowNumwords ==
  <<<<"z","e","r","o">>,
    <<"o","n","e">>,
    <<"t","w","o">>,
    <<"t","h","r","e","e">>,
    <<"f","o","u","r">>,
    <<"f","i","v","e">>,
    <<"s","i","x">>,
    <<"s","e","v","e","n">>,
    <<"e","i","g","h","t">>,
    <<"n","i","n","e">>,
    <<"t","e","n">>,
    <<"e","l","e","v","e","n">>,
    <<"t","w","e","l","v","e">>,
    <<"t","h","i","r","t","e","e","n">>,
    <<"f","o","u","r","t","e","e","n">>,
    <<"f","i","f","t","e","e","n">>,
    <<"s","i","x","t","e","e","n">>,
    <<"s","e","v","e","n","t","e","e","n">>,
    <<"e","i","g","h","t","e","e","n">>,
    <<"n","i","n","e","t","e","e","n">>>>
TensNumwords ==
  <<<<"t","w","e","n","t","y">>,
    <<"t","h","i","r","t","y">>,
    <<"f","o","r","t","y">>,
    <<"f","i","f","t","y">>,
    <<"s","i","x","t","y">>,
    <<"s","e","v","e","n","t","y">>,
    <<"e","i","g","h","t","y">>,
    <<"n","i","n","e","t","y">>>>

\* num2words(n) for 0 <= n < 100
below100(n) ==
  IF n < 20 THEN LowNumwords[n + 1]
  ELSE TensNumwords[(n \div 10) - 1]
       \o (IF n % 10 > 0 THEN <<"-">> \o LowNumwords[(n % 10) + 1] ELSE <<>>)

\* num2words(n) for 0 <= n < 1000
below1000(n) ==
  IF n < 100 THEN below100(n)
  ELSE LowNumwords[(n \div 100) + 1] \o <<" ","h","u","n","d","r","e","d">>
       \o (IF n % 100 > 0 THEN <<" ","a","n","d"," ">> \o below100(n % 100) ELSE <<>>)

\* num2words(n) for 0 <= n < 1000000
num2words(n) ==
  IF n < 1000 THEN below1000(n)
  ELSE below1000(n \div 1000) \o <<" ","t","h","o","u","s","a","n","d">>
       \o (IF n % 1000 = 0 THEN <<>>
           ELSE IF n % 1000 < 100 THEN <<" ","a","n","d"," ">> \o below100(n % 1000)
           ELSE <<","," ">> \o below1000(n % 1000))

\* num2words(n, to='year') for 0 <= n < 10000
num2words_year(n) ==
  LET high == n \div 100
      low  == n % 100
  IN  IF high = 0 \/ (high % 10 = 0 /\ low < 10) \/ high >= 100
        THEN num2words(n)
        ELSE num2words(high) \o <<" ">>
             \o (IF low = 0 THEN <<"h","u","n","d","r","e","d">>
                 ELSE IF low < 10 THEN <<"o","h","-">> \o num2words(low)
                 ELSE num2words(low))

----------------------------------------------------------------------------
(* Core logic *)

\* mutant: the teen-hundred range taken as 1100 < v
convert_number_smart_openRange(number_val) ==
  IF 1100 < number_val /\ number_val <= 1999
    THEN num2words(number_val \div 100) \o <<" ","h","u","n","d","r","e","d">>
         \o (IF number_val % 100 > 0
               THEN <<" ","a","n","d"," ">> \o num2words(number_val % 100)
               ELSE <<>>)
  ELSE IF 2010 <= number_val /\ number_val <= 2099
    THEN num2words_year(number_val)
  ELSE num2words(number_val)

convert_number_smart(number_val) ==
  IF 1100 <= number_val /\ number_val <= 1999
    THEN LET hundreds  == number_val \div 100
             remainder == number_val % 100
         IN  num2words(hundreds) \o <<" ","h","u","n","d","r","e","d">>
             \o (IF remainder > 0
                   THEN <<" ","a","n","d"," ">> \o num2words(remainder)
                   ELSE <<>>)
  ELSE IF 2010 <= number_val /\ number_val <= 2099
    THEN num2words_year(number_val)
  ELSE num2words(number_val)

SAFE_TOKEN_URL == <<"S","A","F","E","_","T","O","K","E","N","_","U","R","L">>
SAFE_TOKEN_TCS == <<"S","A","F","E","_","T","O","K","E","N","_","T","C","S">>
SAFE_TOKEN_PA  == <<"S","A","F","E","_","T","O","K","E","N","_","P","A">>
SAFE_TOKEN_ROI == <<"S","A","F","E","_","T","O","K","E","N","_","R","O","I">>
SAFE_TOKEN_NI  == <<"S","A","F","E","_","T","O","K","E","N","_","N","I">>

\* token_map: placeholder -> display surface form
token_map ==
  << <<SAFE_TOKEN_URL, <<"[","U","R","L","]">> >>,
     <<SAFE_TOKEN_TCS, <<"T","&","C","s">> >>,
     <<SAFE_TOKEN_PA,  <<"p",".","a",".">> >>,
     <<SAFE_TOKEN_ROI, <<"R","O","I">> >>,
     <<SAFE_TOKEN_NI,  <<"N","I">> >> >>

\* token_map[t] if t in token_map else t
mapToken(t) ==
  IF \E k \in DOMAIN token_map : token_map[k][1] = t
    THEN token_map[CHOOSE k \in DOMAIN token_map : token_map[k][1] = t][2]
    ELSE t

\* (?:https?://)?(?:www\.)?([a-zA-Z0-9-]+\.)+[a-zA-Z]{2,}(?:/[^\s]*)?
\* (the group is not used by the replacement and is not recorded)
url_regex ==
  Cat(<< Opt(Cat(<<Lit("h"), Lit("t"), Lit("t"), Lit("p"), Opt(Lit("s")),
                   Lit(":"), Lit("/"), Lit("/")>>)),
         Opt(Cat(<<Lit("w"), Lit("w"), Lit("w"), Lit(".")>>)),
         Plus(Cat(<<Plus(Set(LetterSet \cup DigitSet \cup {"-"})), Lit(".")>>)),
         Rep(Set(LetterSet), 2, Inf),
         Opt(Cat(<<Lit("/"), Star(NotSet(SpaceSet))>>)) >>)

\* \b([A-Z]{1,2}\d[A-Z\d]?)\s*(\d[A-Z]{2})\b   with re.IGNORECASE
postcode_regex ==
  Cat(<< WB,
         Grp(1, Cat(<<Rep(Set(UpperSet), 1, 2), Set(DigitSet),
                      Opt(Set(UpperSet \cup DigitSet))>>)),
         Star(Set(SpaceSet)),
         Grp(2, Cat(<<Set(DigitSet), Rep(Set(UpperSet), 2, 2)>>)),
         WB >>)

\* the (pattern, token) pairs, all matched with re.IGNORECASE
abbreviations ==
  << \* \bTs?\s?&\s?Cs\b
     << Cat(<<WB, Lit("T"), Opt(Lit("s")), Opt(Set(SpaceSet)), Lit("&"),
              Opt(Set(SpaceSet)), Lit("C"), Lit("s"), WB>>), SAFE_TOKEN_TCS >>,
     \* \bp\.?a\.?\b
     << Cat(<<WB, Lit("p"), Opt(Lit(".")), Lit("a"), Opt(Lit(".")), WB>>),
        SAFE_TOKEN_PA >>,
     \* \bR\.?O\.?I\.?\b
     << Cat(<<WB, Lit("R"), Opt(Lit(".")), Lit("O"), Opt(Lit(".")), Lit("I"),
              Opt(Lit(".")), WB>>), SAFE_TOKEN_ROI >>,
     \* \bN\.?I\.?\b
     << Cat(<<WB, Lit("N"), Opt(Lit(".")), Lit("I"), Opt(Lit(".")), WB>>),
        SAFE_TOKEN_NI >> >>

\* mutant: the exclusion pattern compiled without re.IGNORECASE
RECURSIVE removeExclusions_caseSensitive(_, _)
removeExclusions_caseSensitive(t, exclusion_list) ==
  IF exclusion_list = <<>> THEN t
  ELSE removeExclusions_caseSensitive(
         IF Head(exclusion_list) # <<>>
           THEN re_sub(Cat(Str(Head(exclusion_list))), <<Text(<<" ">>)>>, t, FALSE)
           ELSE t,
         Tail(exclusion_list))

\* step 1: for excl in exclusion_list: if excl: text = pattern.sub(" ", text)
RECURSIVE removeExclusions(_, _)
removeExclusions(t, exclusion_list) ==
  IF exclusion_list = <<>> THEN t
  ELSE LET excl == Head(exclusion_list)
       IN  removeExclusions(
             IF excl # <<>> THEN re_sub(Cat(Str(excl)), <<Text(<<" ">>)>>, t, TRUE)
             ELSE t,
             Tail(exclusion_list))

stripAll(ss) == [k \in DOMAIN ss |-> strip(ss[k])]

\* mutant: the abbreviation patterns applied without re.IGNORECASE
RECURSIVE protectAbbreviations_caseSensitive(_, _)
protectAbbreviations_caseSensitive(t, abbrs) ==
  IF abbrs = <<>> THEN t
  ELSE protectAbbreviations_caseSensitive(
         re_sub(Head(abbrs)[1], <<Text(Head(abbrs)[2])>>, t, FALSE), Tail(abbrs))

\* step 5: for pattern, token in abbreviations: text = re.sub(...)
RECURSIVE protectAbbreviations(_, _)
protectAbbreviations(t, abbrs) ==
  IF abbrs = <<>> THEN t
  ELSE protectAbbreviations(re_sub(Head(abbrs)[1], <<Text(Head(abbrs)[2])>>, t, TRUE),
                            Tail(abbrs))

\* \b[\w&]+\b
raw_token_regex == Cat(<<WB, Plus(Set(WordSet \cup {"&"})), WB>>)
\* (\d+)
digits_regex == Plus(Set(DigitSet))

\* step 6: the loop over parts
RECURSIVE collectParts(_)
collectParts(parts) ==
  IF parts = <<>> THEN [text_tokens |-> <<>>, number_strings |-> <<>>]
  ELSE LET part == Head(parts)
           rest == collectParts(Tail(parts))
       IN  IF isdigit(part)
             THEN [rest EXCEPT !.number_strings = <<part>> \o @]
             ELSE LET raw_tokens == re_findall(raw_token_regex, part)
                  IN  [rest EXCEPT !.text_tokens =
                         [k \in DOMAIN raw_tokens |-> mapToken(raw_tokens[k])] \o @]

extract_tokens(t, excls) ==
  IF t = <<>> THEN [text_tokens |-> <<>>, number_strings |-> <<>>]
  ELSE LET t1 == IF excls # <<>> THEN removeExclusions(t, stripAll(split(excls)))
                 ELSE t
           t3 == re_sub(url_regex, <<Text(SAFE_TOKEN_URL)>>, t1, FALSE)
           t4 == re_sub(postcode_regex, <<Group(1), Text(<<" ">>), Group(2)>>, t3, TRUE)
           t5 == protectAbbreviations(t4, abbreviations)
       IN  collectParts(re_split(digits_regex, t5))

\* int(num_str)
RECURSIVE int(_)
int(num_str) ==
  IF num_str = <<>> THEN 0
  ELSE 10 * int(SubSeq(num_str, 1, Len(num_str) - 1))
       + (CHOOSE d \in 0..9 : DigitChars[d + 1] = num_str[Len(num_str)])

\* \b\w+\b
word_regex == Cat(<<WB, Plus(Set(WordSet)), WB>>)

\* the body of the number loop for one new num_str: valid_words
valid_words(num_str) ==
  LET spoken == convert_number_smart(int(num_str))
      words  == re_findall(word_regex, lower(spoken))
  IN  SelectSeq(words, LAMBDA w : w \notin WORDS_TO_IGNORE_IN_NUMBERS)

\* mutant: seen_text holds surface forms, so the test is case-sensitive
RECURSIVE uniqueText_caseSensitive(_, _)
uniqueText_caseSensitive(tokens, seen_text) ==
  IF tokens = <<>> THEN <<>>
  ELSE IF Head(tokens) \notin seen_text
    THEN <<Head(tokens)>>
         \o uniqueText_caseSensitive(Tail(tokens), seen_text \cup {Head(tokens)})
    ELSE uniqueText_caseSensitive(Tail(tokens), seen_text)

\* 1. Process Manual Text: unique_text
RECURSIVE uniqueText(_, _)
uniqueText(tokens, seen_text) ==
  IF tokens = <<>> THEN <<>>
  ELSE LET w == Head(tokens)
           w_lower == lower(w)
       IN  IF w_lower \notin seen_text
             THEN <<w>> \o uniqueText(Tail(tokens), seen_text \cup {w_lower})
             ELSE uniqueText(Tail(tokens), seen_text)

\* mutant: seen_numbers holds int(num_str), so "007" and "7" are one numeral
RECURSIVE numberWords_byValue(_, _)
numberWords_byValue(nums, seen_numbers) ==
  IF nums = <<>> THEN <<>>
  ELSE IF int(Head(nums)) \notin seen_numbers
    THEN valid_words(Head(nums))
         \o numberWords_byValue(Tail(nums), seen_numbers \cup {int(Head(nums))})
    ELSE numberWords_byValue(Tail(nums), seen_numbers)

\* 2. Process Numbers: the words appended to final_display_list
RECURSIVE numberWords(_, _)
numberWords(nums, seen_numbers) ==
  IF nums = <<>> THEN <<>>
  ELSE LET num_str == Head(nums)
       IN  IF num_str \notin seen_numbers
             THEN valid_words(num_str)
                  \o numberWords(Tail(nums), seen_numbers \cup {num_str})
             ELSE numberWords(Tail(nums), seen_numbers)

\* mutant: every manual token is counted, not only the unique ones
calculate_word_lists_countAll(tokens, nums) ==
  LET unique_text  == uniqueText(tokens, {})
      number_words == numberWords(nums, {})
  IN  [total_count |-> Len(tokens) + Len(number_words),
       final_display_list |-> unique_text \o number_words]

calculate_word_lists(tokens, nums) ==
  LET unique_text  == uniqueText(tokens, {})
      number_words == numberWords(nums, {})
  IN  [total_count |-> Len(unique_text) + Len(number_words),
       final_display_list |-> unique_text \o number_words]

\* mutant: the 3.0 s tier starts above 10 words
calculate_duration_above10(word_count) ==
  IF word_count = 0 THEN [duration |-> 0, rt |-> 0]
  ELSE LET r == IF word_count > 10 THEN 30 ELSE 20
       IN  [duration |-> (word_count * 2) + r, rt |-> r]

\* durations in tenths of a second: 0.2 s is 2, 3.0 s is 30, 2.0 s is 20
calculate_duration(word_count) ==
  IF word_count = 0 THEN [duration |-> 0, rt |-> 0]
  ELSE LET r == IF word_count >= 10 THEN 30 ELSE 20
       IN  [duration |-> (word_count * 2) + r, rt |-> r]

----------------------------------------------------------------------------
(* Script body, lines 156-176 *)

\* mutant: the additional tokens are compared with the main tokens as typed
unique_add_tokens_caseSensitive(add_tokens, main_tokens) ==
  SelectSeq(add_tokens, LAMBDA t : t \notin Range(main_tokens))

\* main_text_set = {t.lower() for t in main_text_tokens};
\* unique_add_tokens = [t for t in add_text_tokens if t.lower() not in main_text_set]
unique_add_tokens(add_tokens, main_tokens) ==
  LET main_text_set == {lower(main_tokens[k]) : k \in DOMAIN main_tokens}
  IN  SelectSeq(add_tokens, LAMBDA t : lower(t) \notin main_text_set)

\* main_num_set = set(main_num_strings);
\* unique_add_nums = [n for n in add_num_strings if n not in main_num_set]
unique_add_nums(add_nums, main_nums) ==
  LET main_num_set == Range(main_nums)
  IN  SelectSeq(add_nums, LAMBDA n : n \notin main_num_set)

----------------------------------------------------------------------------
(* Bounds and input vocabularies *)

MaxWordCount == 60   \* calculate_duration is applied to 0 .. MaxWordCount
MaxTokens == 3       \* longest text_tokens given to calculate_word_lists
MaxNums == 2         \* longest number_strings given to calculate_word_lists
MaxNumber == 2200    \* convert_number_smart is applied to 0 .. MaxNumber
MaxWords == 2        \* most words in a block typed into the form

SeqsUpTo(S, n) == UNION {[1..k -> S] : k \in 0..n}

RECURSIVE JoinWords(_)
JoinWords(ws) ==
  IF ws = <<>> THEN <<>>
  ELSE IF Len(ws) = 1 THEN ws[1]
  ELSE Head(ws) \o <<" ">> \o JoinWords(Tail(ws))

\* str(v) for v >= 0
RECURSIVE str(_)
str(v) == IF v < 10 THEN <<DigitChars[v + 1]>>
          ELSE str(v \div 10) \o <<DigitChars[(v % 10) + 1]>>

W_apply == <<"a","p","p","l","y">>
W_Apply == <<"A","p","p","l","y">>
W_today == <<"t","o","d","a","y">>
W_Today == <<"T","o","d","a","y">>
W_only  == <<"o","n","l","y">>
W_seven == <<"s","e","v","e","n">>
W_nine  == <<"n","i","n","e">>
N_1139  == <<"1","1","3","9">>
N_1199  == <<"1","1","9","9">>
N_007   == <<"0","0","7">>
N_7     == <<"7">>
N_07    == <<"0","7">>
N_2024  == <<"2","0","2","4">>

TokenVocab == {W_apply, W_Apply, W_today, W_nine}
NumVocab == {N_1139, N_1199, N_007, N_7}
MainVocab == {W_apply, W_today, N_7}
AddVocab == {W_today, W_Today, W_only, N_7, N_07}
MainTexts == {JoinWords(ws) : ws \in SeqsUpTo(MainVocab, MaxWords)}
AddTexts == {JoinWords(ws) : ws \in SeqsUpTo(AddVocab, MaxWords)}

----------------------------------------------------------------------------
(* State machine *)

\* the script's variables before Calculate is pressed (lines 142, 150-151)
AppIdle ==
  /\ main_text = <<>> /\ add_text = <<>> /\ brand_exclusions = <<>>
  /\ has_additional = FALSE
  /\ main_text_tokens = <<>> /\ main_num_strings = <<>>
  /\ add_text_tokens = <<>> /\ add_num_strings = <<>>
  /\ main_wc = 0 /\ main_display_list = <<>> /\ main_dur = 0 /\ main_rt = 0
  /\ add_wc = 0 /\ add_display_list = <<>> /\ add_dur = 0 /\ add_rt = 0
  /\ total_dur = 0

UnitIdle ==
  /\ text = <<>> /\ exclusions = <<>>
  /\ text_tokens = <<>> /\ number_strings = <<>>
  /\ total_count = 0 /\ final_display_list = <<>>
  /\ duration = 0 /\ rt = 0

\* text_tokens, number_strings = extract_tokens(text, exclusions)
Extract ==
  /\ pc = "extract"
  /\ \E r \in {extract_tokens(text, exclusions)} :
         /\ text_tokens' = r.text_tokens
         /\ number_strings' = r.number_strings
  /\ pc' = "count"
  /\ UNCHANGED <<text, exclusions, total_count, final_display_list, duration, rt, appVars>>

\* total_count, final_display_list = calculate_word_lists(text_tokens, number_strings)
Count ==
  /\ pc = "count"
  /\ \E r \in {calculate_word_lists(text_tokens, number_strings)} :
         /\ total_count' = r.total_count
         /\ final_display_list' = r.final_display_list
  /\ pc' = "duration"
  /\ UNCHANGED <<text, exclusions, text_tokens, number_strings, duration, rt, appVars>>

\* duration, rt = calculate_duration(total_count)
Duration ==
  /\ pc = "duration"
  /\ \E r \in {calculate_duration(total_count)} :
         /\ duration' = r.duration
         /\ rt' = r.rt
  /\ pc' = "done"
  /\ UNCHANGED <<text, exclusions, text_tokens, number_strings, total_count,
                 final_display_list, appVars>>

\* "Calculate Duration" pressed with some text (lines 156-176).  Each call is
\* bound by \E over a one-element set, so that it is evaluated once.
Calculate ==
  /\ pc = "idle"
  /\ ~(main_text = <<>> /\ add_text = <<>>)
  /\ \E main \in {extract_tokens(main_text, brand_exclusions)} :
     \E mwl \in {calculate_word_lists(main.text_tokens, main.number_strings)} :
     \E md \in {calculate_duration(mwl.total_count)} :
     \E withAdd \in {has_additional /\ add_text # <<>>} :
     \E add \in {IF withAdd THEN extract_tokens(add_text, brand_exclusions)
                 ELSE [text_tokens |-> <<>>, number_strings |-> <<>>]} :
     \E awl \in {calculate_word_lists(
                   unique_add_tokens(add.text_tokens, main.text_tokens),
                   unique_add_nums(add.number_strings, main.number_strings))} :
     \E ad \in {calculate_duration(awl.total_count)} :
         /\ main_text_tokens' = main.text_tokens
         /\ main_num_strings' = main.number_strings
         /\ main_wc' = mwl.total_count
         /\ main_display_list' = mwl.final_display_list
         /\ main_dur' = md.duration
         /\ main_rt' = md.rt
         /\ add_text_tokens' = add.text_tokens
         /\ add_num_strings' = add.number_strings
         /\ add_wc' = IF withAdd THEN awl.total_count ELSE 0
         /\ add_display_list' = IF withAdd THEN awl.final_display_list ELSE <<>>
         /\ add_dur' = IF withAdd THEN ad.duration ELSE 0
         /\ add_rt' = IF withAdd THEN ad.rt ELSE 0
         /\ total_dur' = md.duration + (IF withAdd THEN ad.duration ELSE 0)
  /\ pc' = "done"
  /\ UNCHANGED <<main_text, add_text, brand_exclusions, has_additional, unitVars>>

\* "Calculate Duration" pressed with no text (lines 202-203): a warning
Warn ==
  /\ pc = "idle"
  /\ main_text = <<>> /\ add_text = <<>>
  /\ pc' = "warned"
  /\ UNCHANGED <<unitVars, appVars>>

\* The form filled in, Calculate not yet pressed
Init ==
  /\ pc = "idle"
  /\ UnitIdle
  /\ main_text \in MainTexts
  /\ brand_exclusions \in {<<>>, W_only}
  /\ has_additional \in BOOLEAN
  \* the Additional Text area exists only when the box is ticked (lines 142-145)
  /\ add_text \in (IF has_additional THEN AddTexts ELSE {<<>>})
  /\ main_text_tokens = <<>> /\ main_num_strings = <<>>
  /\ add_text_tokens = <<>> /\ add_num_strings = <<>>
  /\ main_wc = 0 /\ main_display_list = <<>> /\ main_dur = 0 /\ main_rt = 0
  /\ add_wc = 0 /\ add_display_list = <<>> /\ add_dur = 0 /\ add_rt = 0
  /\ total_dur = 0

Next == Calculate \/ Warn

Spec == Init /\ [][Next]_vars

\* calculate_duration on its own
InitDuration ==
  /\ pc = "duration"
  /\ AppIdle
  /\ text = <<>> /\ exclusions = <<>> /\ text_tokens = <<>> /\ number_strings = <<>>
  /\ total_count \in 0..MaxWordCount
  /\ final_display_list = <<>> /\ duration = 0 /\ rt = 0

NextDuration == Duration

SpecDuration == InitDuration /\ [][NextDuration]_vars

\* calculate_word_lists on its own, its result passed on to calculate_duration
InitWordLists ==
  /\ pc = "count"
  /\ AppIdle
  /\ text = <<>> /\ exclusions = <<>>
  /\ text_tokens \in SeqsUpTo(TokenVocab, MaxTokens)
  /\ number_strings \in SeqsUpTo(NumVocab, MaxNums)
  /\ total_count = 0 /\ final_display_list = <<>> /\ duration = 0 /\ rt = 0

NextWordLists == Count \/ Duration

SpecWordLists == InitWordLists /\ [][NextWordLists]_vars

\* calculate_word_lists on one numeral
InitNumber ==
  /\ pc = "count"
  /\ AppIdle
  /\ text = <<>> /\ exclusions = <<>>
  /\ text_tokens = <<>>
  /\ number_strings \in {<<str(v)>> : v \in 0..MaxNumber}
  /\ total_count = 0 /\ final_display_list = <<>> /\ duration = 0 /\ rt = 0

SpecNumber == InitNumber /\ [][NextWordLists]_vars

----------------------------------------------------------------------------
(* extract_tokens on its own: the texts it is given *)

upperChar(c) ==
  IF c \in LowerSet
    THEN UpperCase[CHOOSE i \in DOMAIN LowerCase : LowerCase[i] = c]
    ELSE c

\* s in every letter case
RECURSIVE CaseVariants(_)
CaseVariants(s) ==
  IF s = <<>> THEN {<<>>}
  ELSE {<<c>> \o r : c \in {lowerChar(Head(s)), upperChar(Head(s))},
                     r \in CaseVariants(Tail(s))}

\* what may stand before and after the phrase under test: the text, and the
\* tokens the text is made of
NoContext == [s |-> <<>>, tokens |-> <<>>]
Before == {NoContext, [s |-> <<"s","e","e"," ">>, tokens |-> <<<<"s","e","e">>>>]}
After  == {NoContext, [s |-> <<" ","a","p","p","l","y">>, tokens |-> <<<<"a","p","p","l","y">>>>]}

\* UK postcodes, typed with and without the interior space, in upper or lower case
Outwards == {<<"S","W","1","A">>, <<"M","1">>, <<"B","3","3">>}
Inwards == {<<"1","A","A">>, <<"8","T","H">>}
PostcodeCases ==
  {[text   |-> b.s \o o \o sep \o i \o a.s,
    tokens |-> b.tokens \o <<o, i>> \o a.tokens] :
     b \in Before, a \in After, sep \in {<<>>, <<" ">>},
     o \in Outwards \cup {lower(x) : x \in Outwards},
     i \in Inwards \cup {lower(x) : x \in Inwards}}

\* the abbreviations, each written form in every letter case
AbbreviationForms ==
  { [forms |-> { <<"T","s"," ","&"," ","C","s">>, <<"T","&","C","s">>,
                 <<"T","s","&","C","s">> },
     canonical |-> <<"T","&","C","s">>],
    [forms |-> { <<"p",".","a",".">>, <<"p","a">> },
     canonical |-> <<"p",".","a",".">>],
    [forms |-> { <<"R",".","O",".","I",".">>, <<"R","O","I">> },
     canonical |-> <<"R","O","I">>],
    [forms |-> { <<"N",".","I",".">>, <<"N","I">> },
     canonical |-> <<"N","I">>] }
AbbreviationCases ==
  UNION { UNION { { [text   |-> b.s \o v \o a.s,
                     tokens |-> b.tokens \o <<e.canonical>> \o a.tokens] :
                      b \in Before, a \in After, v \in CaseVariants(f) } :
                  f \in e.forms } :
          e \in AbbreviationForms }

\* URLs: scheme, www., hostname, path; alone, in a sentence, or typed straight
\* after a word that ends in an underscore
Schemes == {<<>>, <<"h","t","t","p",":","/","/">>, <<"h","t","t","p","s",":","/","/">>}
Hosts == { <<"e","x","a","m","p","l","e",".","c","o","m">>,
           <<"s","h","o","p","2","4",".","c","o",".","u","k">>,
           <<"m","y","-","s","i","t","e",".","i","o">> }
Paths == {<<>>, <<"/">>, <<"/","o","f","f","e","r","2","0","2","4">>, <<"/","t","&","c","s">>}
BeforeUrl == {NoContext,
              [s |-> <<"v","i","s","i","t"," ">>, tokens |-> <<<<"v","i","s","i","t">>>>],
              [s |-> <<"m","y","_">>,    tokens |-> <<<<"m","y","_">>>>]}
AfterUrl == {NoContext, [s |-> <<" ","n","o","w">>, tokens |-> <<<<"n","o","w">>>>]}
UrlCases ==
  {[text |-> b.s \o sch \o www \o h \o p \o a.s, before |-> b.tokens,
    after |-> a.tokens] :
     b \in BeforeUrl, a \in AfterUrl, sch \in Schemes,
     www \in {<<>>, <<"w","w","w",".">>}, h \in Hosts, p \in Paths}

\* Brand exclusions: the text is a run of pieces, a piece an optional space and
\* a word; the exclusions field names brands, which occur in the text only as
\* whole piece words (in any letter case)
MaxPieces == 3       \* most pieces in a text given with exclusions
Brand == <<"N","i","k","e">>
Pieces ==
  { [pre |-> <<>>,    word |-> <<"N","i","k","e">>],
    [pre |-> <<" ">>, word |-> <<"N","I","K","E">>],
    [pre |-> <<" ">>, word |-> <<"t","e","r","m","s">>],
    [pre |-> <<" ">>, word |-> <<"a","p","p","l","y">>],
    [pre |-> <<>>,    word |-> <<"s">>] }
ExclusionFields ==
  { [field |-> <<>>, phrases |-> {}],
    [field |-> <<"N","i","k","e">>, phrases |-> {<<"n","i","k","e">>}],
    [field |-> <<"n","i","k","e">>, phrases |-> {<<"n","i","k","e">>}],
    [field |-> <<" ","N","i","k","e"," ",","," ",",">>,
     phrases |-> {<<"n","i","k","e">>}],
    [field |-> <<",">>, phrases |-> {}],
    [field |-> <<"T","e","r","m","s",",","N","i","k","e">>,
     phrases |-> {<<"t","e","r","m","s">>, <<"n","i","k","e">>}] }

RECURSIVE PiecesText(_)
PiecesText(ps) ==
  IF ps = <<>> THEN <<>> ELSE Head(ps).pre \o Head(ps).word \o PiecesText(Tail(ps))

\* the text with every piece word that is an excluded phrase replaced by a space
RECURSIVE PiecesWithout(_, _)
PiecesWithout(ps, phrases) ==
  IF ps = <<>> THEN <<>>
  ELSE Head(ps).pre
       \o (IF lower(Head(ps).word) \in phrases THEN <<" ">> ELSE Head(ps).word)
       \o PiecesWithout(Tail(ps), phrases)

T_Nike_Air_Max == <<"N","i","k","e"," ","A","i","r"," ","M","a","x">>
T_Nike_terms_apply == <<"N","i","k","e"," ","t","e","r","m","s"," ","a","p","p","l","y">>
\* two overlapping phrases, in both orders
OverlapCases ==
  { [text |-> T_Nike_Air_Max,
     field |-> <<"N","i","k","e"," ","A","i","r",",","A","i","r"," ","M","a","x">>,
     phrases |-> {}, tokens |-> <<<<"M","a","x">>>>],
    [text |-> T_Nike_Air_Max,
     field |-> <<"A","i","r"," ","M","a","x",",","N","i","k","e"," ","A","i","r">>,
     phrases |-> {}, tokens |-> <<<<"N","i","k","e">>>>] }
ExclusionCases ==
  {[text    |-> PiecesText(ps), field |-> f.field, phrases |-> f.phrases,
    tokens  |-> extract_tokens(PiecesWithout(ps, f.phrases), <<>>).text_tokens] :
     ps \in SeqsUpTo(Pieces, MaxPieces), f \in ExclusionFields}
  \cup OverlapCases

InitExtract ==
  /\ pc = "extract"
  /\ AppIdle
  /\ text_tokens = <<>> /\ number_strings = <<>>
  /\ total_count = 0 /\ final_display_list = <<>> /\ duration = 0 /\ rt = 0

NextExtract == Extract \/ Count \/ Duration

InitPostcode ==
  /\ InitExtract
  /\ text \in {c.text : c \in PostcodeCases}
  /\ exclusions = <<>>
SpecPostcode == InitPostcode /\ [][NextExtract]_vars

InitAbbreviation ==
  /\ InitExtract
  /\ text \in {c.text : c \in AbbreviationCases}
  /\ exclusions = <<>>
SpecAbbreviation == InitAbbreviation /\ [][NextExtract]_vars

InitUrl ==
  /\ InitExtract
  /\ text \in {c.text : c \in UrlCases}
  /\ exclusions = <<>>
SpecUrl == InitUrl /\ [][NextExtract]_vars

InitExclusion ==
  /\ InitExtract
  /\ \E c \in ExclusionCases : text = c.text /\ exclusions = c.field
SpecExclusion == InitExclusion /\ [][NextExtract]_vars

----------------------------------------------------------------------------
(* Properties: vocabulary of the statements *)

W_eleven == <<"e","l","e","v","e","n">>
W_thirty == <<"t","h","i","r","t","y">>
W_ninety == <<"n","i","n","e","t","y">>
W_twenty == <<"t","w","e","n","t","y">>
W_four   == <<"f","o","u","r">>

Keys(tokens) == {lower(tokens[i]) : i \in DOMAIN tokens}

\* the positions of tokens whose lower-cased key occurs at no earlier position
FirstKeyPositions(tokens) ==
  {i \in DOMAIN tokens : \A j \in 1..(i - 1) : lower(tokens[j]) # lower(tokens[i])}

\* the positions of nums whose digit string occurs at no earlier position
FirstNumPositions(nums) ==
  {i \in DOMAIN nums : \A j \in 1..(i - 1) : nums[j] # nums[i]}

\* the elements of seq at the positions in P, in increasing order of position
RECURSIVE AtPositions(_, _, _)
AtPositions(seq, P, i) ==
  IF i > Len(seq) THEN <<>>
  ELSE (IF i \in P THEN <<seq[i]>> ELSE <<>>) \o AtPositions(seq, P, i + 1)

\* the countable words each numeral of the vocabularies is read as
SpokenWords(num_str) ==
  CASE num_str = N_1139 -> <<W_eleven, W_thirty, W_nine>>
    [] num_str = N_1199 -> <<W_eleven, W_ninety, W_nine>>
    [] num_str = N_2024 -> <<W_twenty, W_twenty, W_four>>
    [] num_str \in {N_007, N_07, N_7} -> <<W_seven>>

RECURSIVE SpokenWordsOfAll(_)
SpokenWordsOfAll(nums) ==
  IF nums = <<>> THEN <<>>
  ELSE SpokenWords(Head(nums)) \o SpokenWordsOfAll(Tail(nums))

Counted == pc \in {"duration", "done"}

----------------------------------------------------------------------------
(* C1 *)

\* C1: calculate_duration(0) returns total 0 and recognition time 0; for
\* 1 <= word_count <= 9 the recognition time is 2.0 s, for word_count >= 10 it
\* is 3.0 s, and the total is word_count x 0.2 s + recognition time.
C1_Duration ==
  pc = "done" =>
    /\ total_count = 0 => duration = 0 /\ rt = 0
    /\ (1 <= total_count /\ total_count <= 9) => rt = 20
    /\ total_count >= 10 => rt = 30
    /\ total_count > 0 => duration = (total_count * 2) + rt

C1_Witness == pc = "done" /\ total_count = 10 /\ rt = 30 /\ duration = 50

----------------------------------------------------------------------------
(* C2 *)

\* C2: the manual part of the result of calculate_word_lists holds every
\* lower-cased key of text_tokens exactly once, with the surface form of the
\* key's first occurrence, in first-occurrence order; the manual contribution
\* to the count is the number of distinct keys.
C2_ManualDedup ==
  Counted =>
    LET keys   == Keys(text_tokens)
        K      == Cardinality(keys)
        manual == SubSeq(final_display_list, 1, K)
        first  == FirstKeyPositions(text_tokens)
    IN  /\ Len(final_display_list) >= K
        /\ \A k \in keys : Cardinality({j \in 1..K : lower(manual[j]) = k}) = 1
        /\ manual = AtPositions(text_tokens, first, 1)
        /\ total_count = K + (Len(final_display_list) - K)
        /\ number_strings = <<>> => total_count = K /\ final_display_list = manual

C2_Witness ==
  /\ pc = "done"
  /\ text_tokens = <<W_Apply, W_today, W_apply>>
  /\ number_strings = <<>>
  /\ final_display_list = <<W_Apply, W_today>>
  /\ total_count = 2

----------------------------------------------------------------------------
(* C4 *)

\* C4: numerals are deduplicated by literal digit string only: after the
\* manual part, the display list holds the countable words of every distinct
\* digit string, in first-occurrence order, each string's words once and in
\* full ("1139" and "1199", "007" and "7" each contribute), whatever the
\* manual tokens and the other numerals' words are; the count includes them.
C4_NumeralDedup ==
  Counted =>
    LET K      == Cardinality(Keys(text_tokens))
        first  == FirstNumPositions(number_strings)
        spoken == SpokenWordsOfAll(AtPositions(number_strings, first, 1))
    IN  /\ SubSeq(final_display_list, K + 1, Len(final_display_list)) = spoken
        /\ total_count = K + Len(spoken)

C4_Witness ==
  /\ pc = "done"
  /\ text_tokens = <<W_nine>>
  /\ number_strings = <<N_007, N_7>>
  /\ final_display_list = <<W_nine, W_seven, W_seven>>
  /\ total_count = 3

----------------------------------------------------------------------------
(* C10 *)

\* C10: with no number occurrences, calculate_word_lists applied to the
\* display list of a first run returns the same list and the same count.
C10_Idempotent ==
  (Counted /\ number_strings = <<>>) =>
    calculate_word_lists(final_display_list, <<>>)
      = [total_count |-> total_count, final_display_list |-> final_display_list]

C10_Witness ==
  /\ pc = "done"
  /\ text_tokens = <<W_apply, W_Apply, W_apply>>
  /\ number_strings = <<>>
  /\ final_display_list = <<W_apply>>
  /\ total_count = 1

----------------------------------------------------------------------------
(* C5 *)

W_hundred == <<"h","u","n","d","r","e","d">>
W_thousand == <<"t","h","o","u","s","a","n","d">>
W_and == <<"a","n","d">>

\* the maximal runs of letters of s, in order
RECURSIVE LetterRuns(_, _)
LetterRuns(s, cur) ==
  IF s = <<>> THEN (IF cur = <<>> THEN <<>> ELSE <<cur>>)
  ELSE IF Head(s) \in LetterSet THEN LetterRuns(Tail(s), Append(cur, Head(s)))
  ELSE (IF cur = <<>> THEN <<>> ELSE <<cur>>) \o LetterRuns(Tail(s), <<>>)

SpokenAs(phrase) == LetterRuns(phrase, <<>>)
WithoutConnectors(ws) ==
  SelectSeq(ws, LAMBDA w : w \notin {W_hundred, W_thousand, W_and})

\* C5: for 1100 <= v <= 1999 the numeral reads "<v div 100> hundred", then
\* "and <v mod 100>" only when v mod 100 > 0; for 2010 <= v <= 2099 it reads as
\* a calendar year ("twenty" and the reading of v mod 100); otherwise as the
\* cardinal.  Its countable words are the words of that reading without
\* "hundred", "thousand" and "and": 1139 gives eleven, thirty, nine (3) and
\* 2024 gives twenty, twenty, four (3).
C5_NumeralReading ==
  Counted =>
    LET v      == int(number_strings[1])
        read   == SpokenAs(convert_number_smart(v))
        expect ==
          IF 1100 <= v /\ v <= 1999
            THEN SpokenAs(num2words(v \div 100)) \o <<W_hundred>>
                 \o (IF v % 100 > 0 THEN <<W_and>> \o SpokenAs(num2words(v % 100))
                     ELSE <<>>)
          ELSE IF 2010 <= v /\ v <= 2099
            THEN <<W_twenty>> \o SpokenAs(num2words(v % 100))
          ELSE SpokenAs(num2words(v))
    IN  /\ read = expect
        /\ final_display_list = WithoutConnectors(expect)
        /\ total_count = Len(WithoutConnectors(expect))
        /\ v = 1139 => final_display_list = <<W_eleven, W_thirty, W_nine>>
                       /\ total_count = 3
        /\ v = 2024 => final_display_list = <<W_twenty, W_twenty, W_four>>
                       /\ total_count = 3

C5_Witness ==
  /\ pc = "done"
  /\ number_strings = <<N_1139>>
  /\ final_display_list = <<W_eleven, W_thirty, W_nine>>
  /\ total_count = 3

----------------------------------------------------------------------------
(* C3 *)

T_apply_today == JoinWords(<<W_apply, W_today>>)
T_today_only == JoinWords(<<W_today, W_only>>)

\* C3: when an additional block is processed after a main block, its manual
\* tokens whose key is a main-block key and its digit strings that are
\* main-block digit strings contribute nothing to its count and display
\* list; the remaining tokens are aggregated as a standalone block would be.
\* Main "apply today" and additional "today only" count 2 and 1.
C3_CrossBlock ==
  (pc = "done" /\ has_additional /\ add_text # <<>>) =>
    LET mainKeys == Keys(main_text_tokens)
        mainNums == Range(main_num_strings)
        newText  == {i \in FirstKeyPositions(add_text_tokens) :
                       lower(add_text_tokens[i]) \notin mainKeys}
        newNums  == {i \in FirstNumPositions(add_num_strings) :
                       add_num_strings[i] \notin mainNums}
        manual   == AtPositions(add_text_tokens, newText, 1)
        spoken   == SpokenWordsOfAll(AtPositions(add_num_strings, newNums, 1))
    IN  /\ add_display_list = manual \o spoken
        /\ add_wc = Cardinality(newText) + Len(spoken)
        /\ \A j \in 1..Len(manual) : lower(add_display_list[j]) \notin mainKeys
        /\ (main_text = T_apply_today /\ add_text = T_today_only
                /\ brand_exclusions = <<>>)
             => main_wc = 2 /\ add_wc = 1

C3_Witness ==
  /\ pc = "done"
  /\ has_additional
  /\ main_text = T_apply_today
  /\ add_text = T_today_only
  /\ brand_exclusions = <<>>
  /\ main_wc = 2
  /\ add_wc = 1
  /\ add_display_list = <<W_only>>

----------------------------------------------------------------------------
(* C6 *)

Extracted == pc \in {"count", "duration", "done"}

\* C6: a UK postcode, typed with or without the interior space, yields
\* exactly two word-tokens, the outward and the inward part, through
\* extract_tokens and calculate_word_lists, and nothing else.
C6_PostcodeTwoTokens ==
  \A c \in PostcodeCases :
    (text = c.text /\ Extracted) =>
      /\ text_tokens = c.tokens
      /\ number_strings = <<>>
      /\ Counted => final_display_list = c.tokens /\ total_count = Len(c.tokens)

----------------------------------------------------------------------------
(* C7 *)

\* C7: each written form of T&Cs, p.a., ROI and NI, in any letter case, yields
\* exactly one manual token, the abbreviation's canonical form, and no number
\* occurrence; it counts as one word.
C7_AbbreviationFolding ==
  \A c \in AbbreviationCases :
    (text = c.text /\ Extracted) =>
      /\ text_tokens = c.tokens
      /\ number_strings = <<>>
      /\ Counted => final_display_list = c.tokens /\ total_count = Len(c.tokens)

C7_Witness ==
  /\ pc = "done"
  /\ text = <<"t","s"," ","&"," ","c","s">>
  /\ text_tokens = <<<<"T","&","C","s">>>>
  /\ number_strings = <<>>
  /\ total_count = 1

----------------------------------------------------------------------------
(* C8 *)

\* C8: a substring that matches the URL pattern surfaces as the single
\* display token "[URL]", records no number occurrence for the digits inside
\* it, and counts as exactly one word.
C8_UrlOneToken ==
  \A c \in UrlCases :
    (text = c.text /\ Extracted) =>
      /\ text_tokens = c.before \o <<<<"[","U","R","L","]">>>> \o c.after
      /\ number_strings = <<>>
      /\ Counted => total_count = Len(c.before) + 1 + Len(c.after)

----------------------------------------------------------------------------
(* C9 *)

\* C9: every case-insensitive occurrence of each exclusion phrase is replaced
\* by a single space before any other step, phrase after phrase in the order
\* supplied and against the current text, so that it contributes no word;
\* entries that are empty after trimming are skipped.  Exclusions "Nike" on
\* "Nike terms apply" leave the tokens terms, apply.
C9_BrandExclusion ==
  \A c \in ExclusionCases :
    (text = c.text /\ exclusions = c.field /\ Extracted) =>
      /\ text_tokens = c.tokens
      /\ number_strings = <<>>
      /\ \A k \in DOMAIN text_tokens : lower(text_tokens[k]) \notin c.phrases
      /\ (text = T_Nike_terms_apply /\ exclusions = Brand)
           => text_tokens = <<<<"t","e","r","m","s">>, <<"a","p","p","l","y">>>>
      /\ Counted => total_count = Cardinality(Keys(c.tokens))

C9_Witness ==
  /\ pc = "done"
  /\ text = T_Nike_terms_apply
  /\ exclusions = <<" ","N","i","k","e"," ",","," ",",">>
  /\ text_tokens = <<<<"t","e","r","m","s">>, <<"a","p","p","l","y">>>>
  /\ total_count = 2

====
